---- MODULE Spec2Model ----
(***************************************************************************)
(* dylink: lazily linked function cells (LazyFn), the process-wide handle  *)
(* cache of loader(), and the Vulkan instance/device registries.           *)
(*                                                                         *)
(* Threads call LazyFn::link() on statically allocated cells and the       *)
(* Global registry operations.  Every lock acquisition, platform call and  *)
(* unsynchronised slot access of the source is one step of a thread.       *)
(***************************************************************************)
EXTENDS Integers, Sequences, FiniteSets, TLC

\* ------------------------------------------------------------------ bounds
NThreads == 2
MaxCalls == 2
MaxRegOps == 1
NLibs == 3
NInstances == 2
NDevices == 2
MaxLen == 3
MaxOpts == 2
MaxArgs == 1
MaxCloses == 1
NImages == 3
MaxRefs == 2
MaxRetry == 101

Threads == 1..NThreads
Libs == 1..NLibs
Instances == 1..NInstances
Devices == 1..NDevices

\* ------------------------------------------------------------------- cells
\* Two cells with LinkType::Normal, two with LinkType::Vulkan (an ordinary
\* symbol name), and the static DYN_FUNC cell inside vkGetDeviceProcAddr.
SysCells == {"sysA", "sysB"}
VkCells == {"vkA", "vkB"}
DYN_FUNC == "DYN_FUNC"
LinkCells == SysCells \cup VkCells
Cells == LinkCells \cup {DYN_FUNC}

\* LinkType::Normal(lib_list): sysA lists every library in order, sysB is a
\* single-candidate list naming the library that sysA lists last.
lib_list(c) ==
    IF c = "sysA" THEN [k \in 1..NLibs |-> k] ELSE << NLibs >>

lib_count(c) == Len(lib_list(c))

\* ------------------------------------------------------------------ values
\* Function addresses (opaque code pointers).
NullPtr == << "null" >>
Thunk(c) == << "thunk", c >>
SymAddr(l) == << "sym", l >>
DevAddr(d) == << "dev", d >>
InstAddr(i) == << "inst", i >>
GlobalAddr == << "global" >>
GdpaAddr(i) == << "gdpa", i >>
Garbage == << "garbage" >>

\* ErrorKind
LibNotFound == "LibNotFound"
FnNotFound == "FnNotFound"
ListNotFound == "ListNotFound"
NoError == "None"

\* Result<FnPtr> / Option<FnPtr>
Ok(a) == << "Ok", a >>
Err(k) == << "Err", k >>
None == << "None" >>
IsOk(r) == r[1] = "Ok"

\* Option::Some, and a panic that unwinds out of the call.
Some(x) == << "Some", x >>
Panic == << "Panic" >>

\* Rust strings and paths are byte strings that may hold zero bytes; a
\* zero byte and one non-zero byte stand for all of them.
Bytes == 0..1
ByteStrings == UNION {[1..n -> Bytes] : n \in 0..MaxLen}

VARIABLES
    libOpens,      \* platform: library -> whether dlopen opens it
    libExports,    \* platform: library -> whether its image exports the symbol
    vkGdpa,        \* platform: instance -> whether it yields vkGetDeviceProcAddr
    vkInstSym,     \* platform: instance (0: null) -> whether it yields the symbol
    vkDevSym,      \* platform: device -> whether it yields the symbol
    once,          \* cell -> state of its sync::Once
    addr,          \* cell -> contents of the addr slot
    status,        \* cell -> contents of the status slot
    DLL_DATA,      \* library -> cached handle (0: no entry)
    dllReaders,    \* threads holding the DLL_DATA read lock
    VK_INSTANCE,   \* the instance registry
    VK_DEVICE,     \* the device registry
    regRet,        \* the last registry call and the value it returned
    instReaders,   \* threads holding the VK_INSTANCE read lock
    devReaders,    \* threads holding the VK_DEVICE read lock
    pc,            \* thread -> position in its current call
    self,          \* thread -> the cell it is linking
    idx,           \* thread -> index into lib_list in link()
    handle,        \* thread -> handle local of loader()
    todo,          \* thread -> elements the running find_map has not visited
    arg,           \* thread -> device passed to vkGetDeviceProcAddr
    btodo,         \* thread -> instances initial_fn's find_map has not visited
    maybe,         \* thread -> the `maybe` / `result` local of link()
    fn_ptr,        \* thread -> the fn_ptr local of initial_fn
    calls,         \* thread -> number of link() calls it has made
    regCalls,      \* thread -> number of registry calls it has made
    crashed,       \* the process was killed
    opens,         \* history: library -> number of platform opens
    forced,        \* history: library -> outcomes of loader()'s cache-or-open
    runs,          \* history: cell -> executions of the call_once closure
    rets,          \* history: cell -> outcomes link() has returned
    tried,         \* history: thread -> candidates passed to loader() by its link()
    probes,        \* history: thread -> Vulkan lookups made by its link()
    call,          \* the last constructor or backend call: << operation, inputs, result >>
    name,          \* cell -> the bytes of its symbol name
    aggSlot,       \* closeable aggregate: the memoized handle or failure
    aggLock,       \* closeable aggregate: holder of its exclusive lock (0: free)
    aggOpens,      \* history: opens of the aggregate that returned a handle
    aggCloses,     \* history: closes of the aggregate
    aggRes,        \* history: outcomes of the resolutions against the aggregate
    macPc,         \* get_macos_image_path: position of its call
    macI,          \* get_macos_image_path: the index i
    macRetry,      \* get_macos_image_path: the counter _retry
    macCount,      \* platform: what _dyld_image_count() returns now
    macTarget,     \* platform: index of the image the handle refers to (0: none)
    macDebug,      \* whether the build has debug assertions
    regOp          \* thread -> the registry call it waits in for the write lock

platform == << libOpens, libExports, vkGdpa, vkInstSym, vkDevSym >>
sysPlatform == << libOpens, libExports >>
cellv == << once, addr, status >>
dllv == << DLL_DATA, dllReaders >>
regv == << VK_INSTANCE, VK_DEVICE, regRet >>
lockv == << instReaders, devReaders >>
locals == << self, idx, handle, todo, arg, btodo, maybe, fn_ptr >>
hist == << opens, forced, runs, rets, tried, probes >>
budget == << calls, regCalls >>
\* The state that link(), loader() and the registries do not touch.
aggv == << aggSlot, aggLock, aggOpens, aggCloses, aggRes >>
macv == << macPc, macI, macRetry, macCount, macTarget, macDebug >>
rest == << call, name, aggv, macv, regOp >>
vars == << platform, cellv, dllv, regv, lockv, pc, locals, budget, crashed, hist,
           rest >>


\* -------------------------------------------------------------- platform
\* What the platform answers for a library, an instance or a device is not
\* known before it is first asked and does not change afterwards: the
\* Option<FnPtr> values a lookup can return, given the answers so far, ...
Answers(known, a) ==
    IF known = "unknown" THEN {None, Ok(a)}
    ELSE IF known = "some" THEN {Ok(a)}
    ELSE {None}

\* ... and what an answer reveals.
Learn(r) == IF IsOk(r) THEN "some" ELSE "none"

\* dlopen(lib_name, RTLD_NOW | RTLD_LOCAL) as isize: 0 on failure, else the
\* handle of the image (the same handle every time the image is opened).
dlopen(l) ==
    IF libOpens[l] = "unknown" THEN {0, l}
    ELSE IF libOpens[l] = "some" THEN {l}
    ELSE {0}

\* dlsym(handle, fn_name) transmuted to Option<FnPtr>.
dlsym(h) == Answers(libExports[h], SymAddr(h))

\* vkGetInstanceProcAddr(instance, name) for an ordinary symbol name;
\* instance 0 is VkInstance(null).
vkGetInstanceProcAddr(i) ==
    Answers(vkInstSym[i], IF i = 0 THEN GlobalAddr ELSE InstAddr(i))

\* vkGetInstanceProcAddr(instance, "vkGetDeviceProcAddr").
vkGetInstanceProcAddr_gdpa(i) == Answers(vkGdpa[i], GdpaAddr(i))

\* The loader's real vkGetDeviceProcAddr(device, name).
real_vkGetDeviceProcAddr(d) == Answers(vkDevSym[d], DevAddr(d))

\* ------------------------------------------------------------------ Init
InitCells ==
    /\ once = [c \in Cells |-> "new"]
    /\ addr = [c \in Cells |-> Thunk(c)]
    /\ status = [c \in Cells |-> NoError]
    /\ name = [c \in Cells |-> << 1, 0 >>]

\* The process before any thread has called into the library.
InitProcess ==
    /\ DLL_DATA = [l \in Libs |-> 0]
    /\ dllReaders = {}
    /\ VK_INSTANCE = {}
    /\ VK_DEVICE = {}
    /\ regRet = << "none", 0, FALSE >>
    /\ instReaders = {}
    /\ devReaders = {}
    /\ pc = [t \in Threads |-> "idle"]
    /\ self = [t \in Threads |-> "sysA"]
    /\ idx = [t \in Threads |-> 0]
    /\ handle = [t \in Threads |-> 0]
    /\ todo = [t \in Threads |-> {}]
    /\ arg = [t \in Threads |-> 0]
    /\ btodo = [t \in Threads |-> {}]
    /\ maybe = [t \in Threads |-> None]
    /\ fn_ptr = [t \in Threads |-> None]
    /\ calls = [t \in Threads |-> 0]
    /\ regCalls = [t \in Threads |-> 0]
    /\ crashed = FALSE
    /\ opens = [l \in Libs |-> 0]
    /\ forced = [l \in Libs |-> {}]
    /\ runs = [c \in Cells |-> 0]
    /\ rets = [c \in Cells |-> {}]
    /\ tried = [t \in Threads |-> << >>]
    /\ probes = [t \in Threads |-> << >>]
    /\ call = << "none", << >>, << >> >>
    /\ aggSlot = << "Uninit" >>
    /\ aggLock = 0
    /\ aggOpens = 0
    /\ aggCloses = 0
    /\ aggRes = << >>
    /\ macPc = "idle"
    /\ macI = 0
    /\ macRetry = 0
    /\ macCount = 1
    /\ macTarget = 0
    /\ macDebug = FALSE
    /\ regOp = [t \in Threads |-> None]

InitState == InitCells /\ InitProcess

InitSysPlatform ==
    /\ libOpens = [l \in Libs |-> "unknown"]
    /\ libExports = [l \in Libs |-> "unknown"]

InitVkPlatform ==
    /\ vkGdpa = [i \in Instances |-> "unknown"]
    /\ vkInstSym = [i \in Instances \cup {0} |-> "unknown"]
    /\ vkDevSym = [d \in Devices |-> "unknown"]

\* ------------------------------------------------------------- RwLock
\* Whether a thread waits for the write lock of VK_INSTANCE, VK_DEVICE or
\* DLL_DATA.
writer_waiting(lock) ==
    IF lock = "DLL_DATA"
    THEN dllReaders # {} /\ \E u \in Threads : pc[u] = "loader_insert"
    ELSE \E u \in Threads :
           /\ pc[u] = "reg_wait"
           /\ (lock = "VK_INSTANCE") =
                  (regOp[u][1] \in {"insert_instance", "remove_instance"})

\* A miss that keeps the read guard.
drop_read_lock_kept(readers, t) == readers \cup {t}

\* mem::drop(read_lock)
drop_read_lock(readers, t) == readers \ {t}

\* ------------------------------------------------------- LazyFn::link()
\* A thread calls cell.link().
Link(t, c) ==
    /\ ~crashed
    /\ UNCHANGED rest
    /\ pc[t] = "idle"
    /\ once[c] # "unbuilt"
    /\ calls[t] < MaxCalls
    /\ calls' = [calls EXCEPT ![t] = @ + 1]
    /\ self' = [self EXCEPT ![t] = c]
    /\ pc' = [pc EXCEPT ![t] = "call_once"]
    /\ UNCHANGED << platform, cellv, dllv, regv, lockv, idx, handle, todo, arg,
                    btodo, maybe, fn_ptr, regCalls, crashed, hist >>

\* A latch that lets a second caller in while the closure is running.
call_once_runs_racy(s) == s # "done"

\* A latch that runs the closure again after it has completed.
call_once_runs_again(s) == s \in {"new", "done"}

\* A latch that never latches.
call_once_runs_always(s) == TRUE

\* sync::Once::call_once: which callers run the closure.
call_once_runs(s) == s = "new"

\* sync::Once::call_once: which callers return without running it.
call_once_skips(s) == s = "done"

\* self.once.call_once(|| ...): the first caller enters the closure and
\* dispatches on link_ty; a caller that finds the closure running blocks;
\* a caller that finds it complete goes on to read the status slot.
LinkCallOnce(t) ==
    /\ ~crashed
    /\ UNCHANGED rest
    /\ pc[t] = "call_once"
    /\ LET c == self[t] IN
       \/ /\ call_once_runs(once[c])
          /\ once' = [once EXCEPT ![c] = "running"]
          /\ runs' = [runs EXCEPT ![c] = @ + 1]
          /\ IF c \in VkCells
             THEN /\ pc' = [pc EXCEPT ![t] = "vk_dev_lock"]
                  /\ UNCHANGED << idx, maybe >>
             ELSE /\ pc' = [pc EXCEPT ![t] = "loader_read"]
                  /\ idx' = [idx EXCEPT ![t] = 1]
                  /\ maybe' = [maybe EXCEPT ![t] = Err(ListNotFound)]
       \/ /\ call_once_skips(once[c])
          /\ pc' = [pc EXCEPT ![t] = "ret"]
          /\ UNCHANGED << once, runs, idx, maybe >>
    /\ UNCHANGED << platform, addr, status, dllv, regv, lockv, self, handle,
                    todo, arg, btodo, fn_ptr, budget, crashed, opens, forced, rets, tried, probes >>


\* A loop that goes on to the next candidate after FnNotFound.
loop_breaks_on_ok(r) == IsOk(r)

\* The body of `for name in lib_list`: whether loader()'s result ends the
\* loop (Ok, or an error of kind FnNotFound).
loop_breaks(r) == IsOk(r) \/ r = Err(FnNotFound)

\* A loop that skips a candidate.
next_candidate_skip(k) == k + 2

\* The index of the candidate the loop visits after the one at index k.
next_candidate(k) == k + 1

\* loader() has returned r to the loop of link(): `result` is overwritten
\* when the loop breaks, otherwise the loop goes on to the next candidate
\* and falls out with `result` as it stands after the last one.
LoaderReturns(t, r) ==
    IF loop_breaks(r)
    THEN /\ maybe' = [maybe EXCEPT ![t] = r]
         /\ pc' = [pc EXCEPT ![t] = "write"]
         /\ idx' = idx
    ELSE IF next_candidate(idx[t]) \in 1..lib_count(self[t])
    THEN /\ idx' = [idx EXCEPT ![t] = next_candidate(idx[t])]
         /\ pc' = [pc EXCEPT ![t] = "loader_read"]
         /\ maybe' = maybe
    ELSE /\ pc' = [pc EXCEPT ![t] = "write"]
         /\ UNCHANGED << idx, maybe >>

\* ---------------------------------------------------------------- loader()
\* The library loader() is called with by thread t.
lib_name(t) == lib_list(self[t])[idx[t]]

\* A lookup that never finds an entry.
cached_miss(l) == 0

\* DLL_DATA.read().get(lib_name): the cached handle, if any.
cached(l) == DLL_DATA[l]

\* DLL_DATA.read() and the lookup.  On a hit the read guard stays alive to
\* the end of loader(); on a miss it is dropped before the platform open.
LoaderRead(t) ==
    /\ ~crashed
    /\ UNCHANGED rest
    /\ pc[t] = "loader_read"
    /\ tried' = [tried EXCEPT ![t] = Append(@, lib_name(t))]
    /\ IF cached(lib_name(t)) # 0
       THEN /\ handle' = [handle EXCEPT ![t] = cached(lib_name(t))]
            /\ forced' = [forced EXCEPT ![lib_name(t)] =
                             @ \cup {Ok(cached(lib_name(t)))}]
            /\ dllReaders' = dllReaders \cup {t}
            /\ pc' = [pc EXCEPT ![t] = "loader_sym"]
       ELSE /\ dllReaders' = drop_read_lock(dllReaders \cup {t}, t)
            /\ pc' = [pc EXCEPT ![t] = "loader_open"]
            /\ UNCHANGED << handle, forced >>
    /\ UNCHANGED << platform, cellv, DLL_DATA, regv, lockv, self, idx, todo, arg,
                    btodo, maybe, fn_ptr, budget, crashed, opens, runs, rets, probes >>

\* libc::dlopen(lib_name): a zero handle returns Err(LibNotFound) to link().
LoaderOpen(t) ==
    /\ ~crashed
    /\ UNCHANGED rest
    /\ pc[t] = "loader_open"
    /\ opens' = [opens EXCEPT ![lib_name(t)] = @ + 1]
    /\ \E lib_handle \in dlopen(lib_name(t)) :
         /\ libOpens' = [libOpens EXCEPT ![lib_name(t)] =
                           IF lib_handle = 0 THEN "none" ELSE "some"]
         /\ forced' = [forced EXCEPT ![lib_name(t)] =
                         @ \cup {IF lib_handle = 0 THEN Err(LibNotFound)
                                                  ELSE Ok(lib_handle)}]
         /\ IF lib_handle = 0
            THEN /\ LoaderReturns(t, Err(LibNotFound))
                 /\ UNCHANGED handle
            ELSE /\ handle' = [handle EXCEPT ![t] = lib_handle]
                 /\ pc' = [pc EXCEPT ![t] = "loader_insert"]
                 /\ UNCHANGED << idx, maybe >>
    /\ UNCHANGED << libExports, vkGdpa, vkInstSym, vkDevSym, cellv, dllv, regv, lockv, self, todo, arg, btodo,
                    fn_ptr, budget, crashed, runs, rets, tried, probes >>

\* DLL_DATA.write().unwrap().insert(lib_name, lib_handle): the write lock is
\* granted when no thread holds the read lock.
LoaderInsert(t) ==
    /\ ~crashed
    /\ UNCHANGED rest
    /\ pc[t] = "loader_insert"
    /\ dllReaders = {}
    /\ DLL_DATA' = [DLL_DATA EXCEPT ![lib_name(t)] = handle[t]]
    /\ pc' = [pc EXCEPT ![t] = "loader_sym"]
    /\ UNCHANGED << platform, cellv, dllReaders, regv, lockv, locals, budget,
                    crashed, hist >>

\* loader()'s result from dlsym's Option<FnPtr>.
loader_result(o) == IF IsOk(o) THEN o ELSE Err(FnNotFound)

\* libc::dlsym(handle, fn_name) and the return of loader(), which drops the
\* read guard if it is still alive.
LoaderSym(t) ==
    /\ ~crashed
    /\ UNCHANGED rest
    /\ pc[t] = "loader_sym"
    /\ dllReaders' = dllReaders \ {t}
    /\ \E maybe_fn \in dlsym(handle[t]) :
         /\ libExports' = [libExports EXCEPT ![handle[t]] = Learn(maybe_fn)]
         /\ LoaderReturns(t, loader_result(maybe_fn))
    /\ UNCHANGED << libOpens, vkGdpa, vkInstSym, vkDevSym, cellv, DLL_DATA, regv, lockv, self, handle, todo,
                    arg, btodo, fn_ptr, budget, crashed, hist >>

\* ------------------------------------------------- link(): write and return
\* `match maybe`: the slot values after the closure has run.
slot_addr(c, m) == IF IsOk(m) THEN m[2] ELSE addr[c]

slot_status(c, m) == IF IsOk(m) THEN status[c] ELSE m[2]

\* The end of the call_once closure: Ok(addr) is written to the addr slot,
\* Err's kind to the status slot, and the Once completes.
LinkWrite(t) ==
    /\ ~crashed
    /\ UNCHANGED rest
    /\ pc[t] = "write"
    /\ addr' = [addr EXCEPT ![self[t]] = slot_addr(self[t], maybe[t])]
    /\ status' = [status EXCEPT ![self[t]] = slot_status(self[t], maybe[t])]
    /\ once' = [once EXCEPT ![self[t]] = "done"]
    /\ pc' = [pc EXCEPT ![t] = "ret"]
    /\ UNCHANGED << platform, dllv, regv, lockv, locals, budget, crashed, hist >>

\* The locals of a call are dead once it has returned.
Forget(t) ==
    /\ self' = [self EXCEPT ![t] = "sysA"]
    /\ idx' = [idx EXCEPT ![t] = 0]
    /\ handle' = [handle EXCEPT ![t] = 0]
    /\ todo' = [todo EXCEPT ![t] = {}]
    /\ arg' = [arg EXCEPT ![t] = 0]
    /\ btodo' = [btodo EXCEPT ![t] = {}]
    /\ maybe' = [maybe EXCEPT ![t] = None]
    /\ fn_ptr' = [fn_ptr EXCEPT ![t] = None]
    /\ tried' = [tried EXCEPT ![t] = << >>]
    /\ probes' = [probes EXCEPT ![t] = << >>]

\* link()'s return value, from the status slot and the addr slot.
link_result(c) ==
    IF status[c] = NoError THEN Ok(addr[c]) ELSE Err(status[c])

\* `match unsafe { *self.status.get() }` and the return of link().
LinkReturn(t) ==
    /\ ~crashed
    /\ UNCHANGED rest
    /\ pc[t] = "ret"
    /\ rets' = [rets EXCEPT ![self[t]] = @ \cup {link_result(self[t])}]
    /\ pc' = [pc EXCEPT ![t] = "idle"]
    /\ Forget(t)
    /\ UNCHANGED << platform, cellv, dllv, regv, lockv, budget, crashed, opens, forced,
                    runs >>

\* ---------------------------------------------- system-loader specification
Init == InitState /\ InitSysPlatform /\ InitVkPlatform

InitSys == Init

NextSys ==
    \E t \in Threads :
        \/ \E c \in SysCells : Link(t, c)
        \/ LinkCallOnce(t)
        \/ LoaderRead(t)
        \/ LoaderOpen(t)
        \/ LoaderInsert(t)
        \/ LoaderSym(t)
        \/ LinkWrite(t)
        \/ LinkReturn(t)

SpecSys == InitSys /\ [][NextSys]_vars

\* -------------------------------------------- a file system that changes
\* dlopen searches the file system at every call: a library that was not
\* found at one call is found at the next once its file has been installed.
LibraryInstalled(l) ==
    /\ ~crashed
    /\ UNCHANGED rest
    /\ libOpens[l] = "none"
    /\ libOpens' = [libOpens EXCEPT ![l] = "some"]
    /\ UNCHANGED << libExports, vkGdpa, vkInstSym, vkDevSym, cellv, dllv, regv,
                    lockv, pc, locals, budget, crashed, hist >>

InitInstall == Init

NextInstall ==
    \/ NextSys
    \/ \E l \in Libs : LibraryInstalled(l)

SpecInstall == InitInstall /\ [][NextInstall]_vars


\* ------------------------------------------- link(): LinkType::Vulkan branch
\* VK_DEVICE.read(): the guard lives to the end of the Vulkan arm.
VkDevLock(t) ==
    /\ ~crashed
    /\ UNCHANGED rest
    /\ pc[t] = "vk_dev_lock"
    /\ devReaders' = devReaders \cup {t}
    /\ todo' = [todo EXCEPT ![t] = VK_DEVICE]
    /\ pc' = [pc EXCEPT ![t] = "vk_dev_iter"]
    /\ UNCHANGED << platform, cellv, dllv, regv, instReaders, self, idx, handle,
                    arg, btodo, maybe, fn_ptr, budget, crashed, hist >>

\* device_read_lock.iter().find_map(...): the HashSet yields its elements in
\* an arbitrary order.  The next device is passed to vkGetDeviceProcAddr;
\* when none is left the guard is dropped (mem::drop) and the instance
\* registry is tried.
VkDevIter(t) ==
    /\ ~crashed
    /\ UNCHANGED rest
    /\ pc[t] = "vk_dev_iter"
    /\ IF todo[t] = {}
       THEN /\ devReaders' = devReaders \ {t}
            /\ pc' = [pc EXCEPT ![t] = "vk_inst_lock"]
            /\ UNCHANGED << todo, arg >>
       ELSE /\ \E d \in todo[t] :
                 /\ arg' = [arg EXCEPT ![t] = d]
                 /\ todo' = [todo EXCEPT ![t] = @ \ {d}]
            /\ pc' = [pc EXCEPT ![t] = "gdpa_call"]
            /\ UNCHANGED devReaders
    /\ UNCHANGED << platform, cellv, dllv, regv, instReaders, self, idx, handle,
                    btodo, maybe, fn_ptr, budget, crashed, hist >>

\* Whether find_map stops at a closure result.
find_map_stops(r) == IsOk(r)

\* vkGetDeviceProcAddr(device, name) has returned r to the find_map over the
\* devices: Some(addr) ends the Vulkan arm with Ok(addr), and the arm's end
\* drops the device guard.
VkDevReturns(t, r) ==
    /\ probes' = [probes EXCEPT ![t] = Append(@, << "dev", arg[t], r >>)]
    /\ IF find_map_stops(r)
       THEN /\ maybe' = [maybe EXCEPT ![t] = r]
            /\ devReaders' = devReaders \ {t}
            /\ pc' = [pc EXCEPT ![t] = "write"]
       ELSE /\ pc' = [pc EXCEPT ![t] = "vk_dev_iter"]
            /\ UNCHANGED << maybe, devReaders >>

\* VK_INSTANCE.read() after the device guard was dropped.
VkInstLock(t) ==
    /\ ~crashed
    /\ UNCHANGED rest
    /\ pc[t] = "vk_inst_lock"
    /\ instReaders' = instReaders \cup {t}
    /\ todo' = [todo EXCEPT ![t] = VK_INSTANCE]
    /\ pc' = [pc EXCEPT ![t] = "vk_inst_iter"]
    /\ UNCHANGED << platform, cellv, dllv, regv, devReaders, self, idx, handle,
                    arg, btodo, maybe, fn_ptr, budget, crashed, hist >>

\* instance_read_lock.iter().find_map(...): Some(addr) ends the arm (and
\* drops the instance guard); when no instance is left the null-instance
\* lookup follows with the guard still alive.
VkInstIter(t) ==
    /\ ~crashed
    /\ UNCHANGED rest
    /\ pc[t] = "vk_inst_iter"
    /\ IF todo[t] = {}
       THEN /\ pc' = [pc EXCEPT ![t] = "vk_null"]
            /\ UNCHANGED << todo, maybe, instReaders, probes, vkInstSym >>
       ELSE \E i \in todo[t] : \E r \in vkGetInstanceProcAddr(i) :
              /\ vkInstSym' = [vkInstSym EXCEPT ![i] = Learn(r)]
              /\ todo' = [todo EXCEPT ![t] = @ \ {i}]
              /\ probes' = [probes EXCEPT ![t] = Append(@, << "inst", i, r >>)]
              /\ IF find_map_stops(r)
                 THEN /\ maybe' = [maybe EXCEPT ![t] = r]
                      /\ instReaders' = instReaders \ {t}
                      /\ pc' = [pc EXCEPT ![t] = "write"]
                 ELSE UNCHANGED << maybe, instReaders, pc >>
    /\ UNCHANGED << sysPlatform, vkGdpa, vkDevSym, cellv, dllv, regv, devReaders, self, idx, handle,
                    arg, btodo, fn_ptr, budget, crashed, opens, forced, runs, rets, tried >>

\* Option::ok_or(DylinkError::new(Some(self.name), ErrorKind::FnNotFound)).
ok_or_FnNotFound(o) == IF IsOk(o) THEN o ELSE Err(FnNotFound)

\* vkGetInstanceProcAddr(VkInstance(null), name).ok_or(FnNotFound); the end
\* of the arm drops the instance guard.
VkNull(t) ==
    /\ ~crashed
    /\ UNCHANGED rest
    /\ pc[t] = "vk_null"
    /\ \E r \in vkGetInstanceProcAddr(0) :
         /\ vkInstSym' = [vkInstSym EXCEPT ![0] = Learn(r)]
         /\ probes' = [probes EXCEPT ![t] = Append(@, << "null", 0, r >>)]
         /\ maybe' = [maybe EXCEPT ![t] = ok_or_FnNotFound(r)]
    /\ instReaders' = instReaders \ {t}
    /\ pc' = [pc EXCEPT ![t] = "write"]
    /\ UNCHANGED << sysPlatform, vkGdpa, vkDevSym, cellv, dllv, regv, devReaders, self, idx, handle,
                    todo, arg, btodo, fn_ptr, budget, crashed, opens, forced, runs, rets,
                    tried >>


\* ------------------------------------------------- vkGetDeviceProcAddr()
\* `DYN_FUNC(device, name)`: LazyFn::deref reads the addr slot without going
\* through the Once and the value is called.  The placeholder is initial_fn;
\* a null value is not a function; anything else is the loader's
\* vkGetDeviceProcAddr.
DynFuncCall(t, next) ==
    IF addr[DYN_FUNC] = Thunk(DYN_FUNC)
    THEN /\ pc' = [pc EXCEPT ![t] = next]
         /\ UNCHANGED << maybe, devReaders, probes, vkDevSym >>
    ELSE IF addr[DYN_FUNC] = NullPtr
    THEN /\ pc' = [pc EXCEPT ![t] = "ub"]
         /\ UNCHANGED << maybe, devReaders, probes, vkDevSym >>
    ELSE \E r \in real_vkGetDeviceProcAddr(arg[t]) :
           /\ vkDevSym' = [vkDevSym EXCEPT ![arg[t]] = Learn(r)]
           /\ VkDevReturns(t, r)

\* The body of vkGetDeviceProcAddr: DYN_FUNC(device, name).
GdpaCall(t) ==
    /\ ~crashed
    /\ UNCHANGED rest
    /\ pc[t] = "gdpa_call"
    /\ DynFuncCall(t, "initial_once")
    /\ UNCHANGED << sysPlatform, vkGdpa, vkInstSym, cellv, dllv, regv, instReaders, self, idx, handle,
                    todo, arg, btodo, fn_ptr, budget, crashed, opens, forced, runs, rets,
                    tried >>

\* initial_fn: DYN_FUNC.once.call_once(|| ...).
InitialFnCallOnce(t) ==
    /\ ~crashed
    /\ UNCHANGED rest
    /\ pc[t] = "initial_once"
    /\ \/ /\ call_once_runs(once[DYN_FUNC])
          /\ once' = [once EXCEPT ![DYN_FUNC] = "running"]
          /\ runs' = [runs EXCEPT ![DYN_FUNC] = @ + 1]
          /\ pc' = [pc EXCEPT ![t] = "initial_lock"]
       \/ /\ call_once_skips(once[DYN_FUNC])
          /\ pc' = [pc EXCEPT ![t] = "initial_call"]
          /\ UNCHANGED << once, runs >>
    /\ UNCHANGED << platform, addr, status, dllv, regv, lockv, locals, budget,
                    crashed, opens, forced, rets, tried, probes >>

\* The closure of initial_fn: VK_INSTANCE.read().
InitialFnLock(t) ==
    /\ ~crashed
    /\ UNCHANGED rest
    /\ pc[t] = "initial_lock"
    /\ instReaders' = instReaders \cup {t}
    /\ btodo' = [btodo EXCEPT ![t] = VK_INSTANCE]
    /\ fn_ptr' = [fn_ptr EXCEPT ![t] = None]
    /\ pc' = [pc EXCEPT ![t] = "initial_iter"]
    /\ UNCHANGED << platform, cellv, dllv, regv, devReaders, self, idx, handle,
                    todo, arg, maybe, budget, crashed, hist >>

\* read_lock.iter().find_map(|instance| vkGetInstanceProcAddr(*instance,
\* "vkGetDeviceProcAddr")): fn_ptr is the first Some, or None.
InitialFnIter(t) ==
    /\ ~crashed
    /\ UNCHANGED rest
    /\ pc[t] = "initial_iter"
    /\ IF btodo[t] = {}
       THEN /\ pc' = [pc EXCEPT ![t] = "initial_write"]
            /\ UNCHANGED << btodo, fn_ptr, vkGdpa >>
       ELSE \E i \in btodo[t] : \E r \in vkGetInstanceProcAddr_gdpa(i) :
              /\ vkGdpa' = [vkGdpa EXCEPT ![i] = Learn(r)]
              /\ btodo' = [btodo EXCEPT ![t] = @ \ {i}]
              /\ fn_ptr' = [fn_ptr EXCEPT ![t] = r]
              /\ IF find_map_stops(r)
                 THEN pc' = [pc EXCEPT ![t] = "initial_write"]
                 ELSE pc' = pc
    /\ UNCHANGED << sysPlatform, vkInstSym, vkDevSym, cellv, dllv, regv, lockv, self, idx, handle, todo,
                    arg, maybe, budget, crashed, hist >>

\* mem::transmute::<Option<FnPtr>, fn>: None has the bits of a null pointer.
transmute(o) == IF IsOk(o) THEN o[2] ELSE NullPtr

\* `*UnsafeCell::raw_get(&DYN_FUNC.addr) = mem::transmute(fn_ptr)`, the end
\* of the closure (which drops the instance guard) and of call_once.
InitialFnWrite(t) ==
    /\ ~crashed
    /\ UNCHANGED rest
    /\ pc[t] = "initial_write"
    /\ addr' = [addr EXCEPT ![DYN_FUNC] = transmute(fn_ptr[t])]
    /\ once' = [once EXCEPT ![DYN_FUNC] = "done"]
    /\ instReaders' = instReaders \ {t}
    /\ pc' = [pc EXCEPT ![t] = "initial_call"]
    /\ UNCHANGED << platform, status, dllv, regv, devReaders, locals, budget,
                    crashed, hist >>

\* initial_fn's tail: DYN_FUNC(device, name).  The slot still holding the
\* placeholder would call initial_fn again.
InitialFnCall(t) ==
    /\ ~crashed
    /\ UNCHANGED rest
    /\ pc[t] = "initial_call"
    /\ DynFuncCall(t, "initial_once")
    /\ UNCHANGED << sysPlatform, vkGdpa, vkInstSym, cellv, dllv, regv, instReaders, self, idx, handle,
                    todo, arg, btodo, fn_ptr, budget, crashed, opens, forced, runs, rets,
                    tried >>

\* Calling through a null function pointer is undefined behaviour: the
\* process is killed, ...
NullCallCrashes(t) ==
    /\ ~crashed
    /\ UNCHANGED rest
    /\ pc[t] = "ub"
    /\ crashed' = TRUE
    /\ UNCHANGED << platform, cellv, dllv, regv, lockv, pc, locals, budget, hist >>

\* ... or the call comes back with arbitrary bits as its Option<FnPtr>.
NullCallReturns(t) ==
    /\ ~crashed
    /\ UNCHANGED rest
    /\ pc[t] = "ub"
    /\ \E r \in {None, Ok(Garbage)} : VkDevReturns(t, r)
    /\ UNCHANGED << platform, cellv, dllv, regv, instReaders, self, idx, handle,
                    todo, arg, btodo, fn_ptr, budget, crashed, opens, forced, runs, rets,
                    tried >>

\* ------------------------------------------------------------------ Global
\* The registry a call works on, and the holders of its read lock.
readers_of(op) ==
    IF op \in {"insert_instance", "remove_instance"} THEN instReaders
                                                      ELSE devReaders

\* HashSet::insert with the negation of its answer.
insert_returns_present(set, x) == x \in set

\* HashSet::insert's return value: whether the value was newly inserted.
insert_returns(set, x) == x \notin set

\* HashSet::remove's return value: whether the value was present.
remove_returns(set, x) == x \in set

\* The body of a registry call under the write lock, which is held for the
\* set operation only.
RegistryWrite(t, op, x) ==
    /\ regCalls' = [regCalls EXCEPT ![t] = @ + 1]
    /\ regRet' = << op, x,
                    IF op = "insert_instance" THEN insert_returns(VK_INSTANCE, x)
                    ELSE IF op = "remove_instance" THEN remove_returns(VK_INSTANCE, x)
                    ELSE IF op = "insert_device" THEN insert_returns(VK_DEVICE, x)
                    ELSE remove_returns(VK_DEVICE, x) >>
    /\ VK_INSTANCE' = IF op = "insert_instance" THEN VK_INSTANCE \cup {x}
                      ELSE IF op = "remove_instance" THEN VK_INSTANCE \ {x}
                      ELSE VK_INSTANCE
    /\ VK_DEVICE' = IF op = "insert_device" THEN VK_DEVICE \cup {x}
                    ELSE IF op = "remove_device" THEN VK_DEVICE \ {x}
                    ELSE VK_DEVICE

\* A registry call by an idle thread: `.write().unwrap()` is granted when
\* no thread holds the read lock; otherwise the thread waits for it.
RegistryCall(t, op, x) ==
    /\ ~crashed
    /\ UNCHANGED << call, name, aggv, macv >>
    /\ pc[t] = "idle"
    /\ regCalls[t] < MaxRegOps
    /\ IF readers_of(op) = {}
       THEN /\ RegistryWrite(t, op, x)
            /\ UNCHANGED << pc, regOp >>
       ELSE /\ pc' = [pc EXCEPT ![t] = "reg_wait"]
            /\ regOp' = [regOp EXCEPT ![t] = << op, x >>]
            /\ UNCHANGED << regv, regCalls >>
    /\ UNCHANGED << platform, cellv, dllv, lockv, locals, calls, crashed, hist >>

\* The write lock is granted to a waiting registry call.
RegistryGranted(t) ==
    /\ ~crashed
    /\ UNCHANGED << call, name, aggv, macv >>
    /\ pc[t] = "reg_wait"
    /\ readers_of(regOp[t][1]) = {}
    /\ RegistryWrite(t, regOp[t][1], regOp[t][2])
    /\ pc' = [pc EXCEPT ![t] = "idle"]
    /\ regOp' = [regOp EXCEPT ![t] = None]
    /\ UNCHANGED << platform, cellv, dllv, lockv, locals, calls, crashed, hist >>

insert_instance(t, i) == RegistryCall(t, "insert_instance", i)

remove_instance(t, i) == RegistryCall(t, "remove_instance", i)

insert_device(t, d) == RegistryCall(t, "insert_device", d)

remove_device(t, d) == RegistryCall(t, "remove_device", d)

\* ------------------------------------------------------ Vulkan specification
InitVk == Init

NextVk ==
    \E t \in Threads :
        \/ \E c \in VkCells : Link(t, c)
        \/ LinkCallOnce(t)
        \/ VkDevLock(t)
        \/ VkDevIter(t)
        \/ GdpaCall(t)
        \/ InitialFnCallOnce(t)
        \/ InitialFnLock(t)
        \/ InitialFnIter(t)
        \/ InitialFnWrite(t)
        \/ InitialFnCall(t)
        \/ NullCallCrashes(t)
        \/ NullCallReturns(t)
        \/ VkInstLock(t)
        \/ VkInstIter(t)
        \/ VkNull(t)
        \/ LinkWrite(t)
        \/ LinkReturn(t)
        \/ \E i \in Instances : insert_instance(t, i)
        \/ \E i \in Instances : remove_instance(t, i)
        \/ \E d \in Devices : insert_device(t, d)
        \/ \E d \in Devices : remove_device(t, d)
        \/ RegistryGranted(t)

SpecVk == InitVk /\ [][NextVk]_vars


\* ------------------------------------------------------ link specification
\* Threads link a System cell and the Vulkan cells and call the registries
\* with one instance and one device.
MixedCells == {"sysB", "vkA", "vkB"}
MixedInstance == CHOOSE i \in Instances : TRUE
MixedDevice == CHOOSE d \in Devices : TRUE

InitLink == Init

NextLink ==
    \E t \in Threads :
        \/ \E c \in MixedCells : Link(t, c)
        \/ LinkCallOnce(t)
        \/ LoaderRead(t)
        \/ LoaderOpen(t)
        \/ LoaderInsert(t)
        \/ LoaderSym(t)
        \/ VkDevLock(t)
        \/ VkDevIter(t)
        \/ GdpaCall(t)
        \/ InitialFnCallOnce(t)
        \/ InitialFnLock(t)
        \/ InitialFnIter(t)
        \/ InitialFnWrite(t)
        \/ InitialFnCall(t)
        \/ NullCallCrashes(t)
        \/ NullCallReturns(t)
        \/ VkInstLock(t)
        \/ VkInstIter(t)
        \/ VkNull(t)
        \/ LinkWrite(t)
        \/ LinkReturn(t)
        \/ insert_instance(t, MixedInstance)
        \/ remove_instance(t, MixedInstance)
        \/ insert_device(t, MixedDevice)
        \/ remove_device(t, MixedDevice)
        \/ RegistryGranted(t)

SpecLink == InitLink /\ [][NextLink]_vars

\* ----------------------------------------------------------- LazyFn::new()
\* `assert!(matches!(name.as_bytes(), [.., 0]))`.
name_assert(n) == Len(n) > 0 /\ n[Len(n)] = 0

\* `assert!(link_ty.lib_count() != 0)`; LinkType::Vulkan counts as one.
lib_count_assert(c) == c \in VkCells \/ lib_count(c) # 0

\* A constructor that stores a null address instead of the thunk.
new_addr_null(c) == NullPtr

\* The fields of the constructed cell: addr holds the thunk, the Once is
\* new, the status slot is None.
new_addr(c) == Thunk(c)

new_once == "new"

new_status == NoError

\* LazyFn::new(name, thunk, link_ty) by thread t for the cell c: a failed
\* assertion panics and nothing is constructed.
LazyFn_new(t, c, n) ==
    /\ ~crashed
    /\ pc[t] = "idle"
    /\ once[c] = "unbuilt"
    /\ IF name_assert(n) /\ lib_count_assert(c)
       THEN /\ name' = [name EXCEPT ![c] = n]
            /\ addr' = [addr EXCEPT ![c] = new_addr(c)]
            /\ once' = [once EXCEPT ![c] = new_once]
            /\ status' = [status EXCEPT ![c] = new_status]
            /\ call' = << "LazyFn::new", << c, n >>, Ok(c) >>
            /\ pc' = pc
       ELSE /\ call' = << "LazyFn::new", << c, n >>, Panic >>
            /\ pc' = [pc EXCEPT ![t] = "panicked"]
            /\ UNCHANGED << name, cellv >>
    /\ UNCHANGED << platform, dllv, regv, lockv, locals, budget, crashed, hist,
                    aggv, macv, regOp >>

\* The cells that are constructed at run time.
NewCells == {"sysB"}

InitNew ==
    /\ once = [c \in Cells |-> IF c \in NewCells THEN "unbuilt" ELSE new_once]
    /\ addr = [c \in Cells |-> IF c \in NewCells THEN NullPtr ELSE new_addr(c)]
    /\ status = [c \in Cells |-> new_status]
    /\ name = [c \in Cells |-> IF c \in NewCells THEN << >> ELSE << 1, 0 >>]
    /\ InitProcess
    /\ InitSysPlatform
    /\ InitVkPlatform

NextNew ==
    \E t \in Threads :
        \/ \E c \in NewCells : \E n \in ByteStrings : LazyFn_new(t, c, n)
        \/ \E c \in NewCells : Link(t, c)
        \/ LinkCallOnce(t)
        \/ LoaderRead(t)
        \/ LoaderOpen(t)
        \/ LoaderInsert(t)
        \/ LoaderSym(t)
        \/ LinkWrite(t)
        \/ LinkReturn(t)

SpecNew == InitNew /\ [][NextNew]_vars

\* ======================================================== os::unix backend
\* What the platform's dl* functions hand back: a handle or null (0) from
\* dlopen, a symbol address or null from dlsym, a status from dlclose, a
\* message or null from dlerror.
DlHandles == {0, 1}
DlStatus == {0, -1}
DlMessages == {0, 1}

\* ffi::CString::new: Err(NulError) when the bytes hold a zero byte, else
\* the bytes with the terminator appended.
CString_new(bytes) ==
    IF \E k \in 1..Len(bytes) : bytes[k] = 0
    THEN Err("NulError")
    ELSE Ok(Append(bytes, 0))

\* c_dlerror: None when dlerror() returns null.
c_dlerror(raw) == IF raw = 0 THEN None ELSE Some(raw)

\* Err(io::Error::new(io::ErrorKind::Other, c_dlerror().unwrap())): the
\* unwrap panics on None.
dlerror_result(raw) ==
    IF c_dlerror(raw) = None THEN Panic ELSE Err(<< "Other", c_dlerror(raw)[2] >>)

\* dylib_open(path): `CString::new(path.as_bytes())?`, dlopen, NonNull::new.
dylib_open(path, handle_, raw) ==
    IF ~IsOk(CString_new(path)) THEN Err("InvalidInput")
    ELSE IF handle_ # 0 THEN Ok(handle_)
    ELSE dlerror_result(raw)

\* dylib_this(): dlopen(null).
dylib_this(handle_, raw) ==
    IF handle_ # 0 THEN Ok(handle_) ELSE dlerror_result(raw)

\* dylib_close(lib_handle): dlclose(lib_handle) != 0 is the failure.
dylib_close(status_, raw) ==
    IF status_ # 0 THEN dlerror_result(raw) ELSE Ok(<< >>)

\* dylib_symbol(lib_handle, name): `CString::new(name).unwrap()`, dlsym, and
\* the dlerror() after it decides between Err and Ok(Symbol(handle)).
dylib_symbol(name_, sym, raw) ==
    IF ~IsOk(CString_new(name_)) THEN Panic
    ELSE IF c_dlerror(raw) # None THEN Err(<< "Other", c_dlerror(raw)[2] >>)
    ELSE Ok(sym)

\* The frame of a backend call: it works on its arguments and on what the
\* platform answers only.
BackendCall(op, args, result) ==
    /\ call' = << op, args, result >>
    /\ UNCHANGED << name, aggv, macv, regOp >>
    /\ UNCHANGED << platform, cellv, dllv, regv, lockv, pc, locals, budget,
                    crashed, hist >>

DylibOpen ==
    /\ call[1] = "none"
    /\ \E path \in ByteStrings : \E h \in DlHandles : \E raw \in DlMessages :
           BackendCall("dylib_open", << path, h, raw >>, dylib_open(path, h, raw))

DylibThis ==
    /\ call[1] = "none"
    /\ \E h \in DlHandles : \E raw \in DlMessages :
           BackendCall("dylib_this", << h, raw >>, dylib_this(h, raw))

DylibClose ==
    /\ call[1] = "none"
    /\ \E st \in DlStatus : \E raw \in DlMessages :
           BackendCall("dylib_close", << st, raw >>, dylib_close(st, raw))

DylibSymbol ==
    /\ call[1] = "none"
    /\ \E n \in ByteStrings : \E sym \in DlHandles : \E raw \in DlMessages :
           BackendCall("dylib_symbol", << n, sym, raw >>, dylib_symbol(n, sym, raw))

\* ----------------------------------------------------------- dylib_clone
\* The images of the process as the dynamic loader keeps them: a reference
\* count (0: not loaded) and the l_name of the link map (0: the empty
\* string).  A handle is the image it refers to; image 1 is the program,
\* whose l_name is empty; the names of loaded images are distinct.
Images == 1..NImages
ThisImage == 1

Worlds ==
    { w \in [refs : [Images -> 0..MaxRefs], l_name : [Images -> 0..NImages]] :
        /\ w.refs[ThisImage] >= 1
        /\ w.l_name[ThisImage] = 0
        /\ \A i \in Images \ {ThisImage} : w.l_name[i] \in {0, i} }

\* dlopen(path, ...) takes a reference on the image, dlclose drops one.
retain(w, h) == [w EXCEPT !.refs[h] = @ + 1]

release(w, h) == [w EXCEPT !.refs[h] = @ - 1]

\* dlopen(path, RTLD_NOW | RTLD_LOCAL): the loaded image of that name, null
\* (0) when there is none to be found.
dlopen_path(w, path) ==
    IF \E i \in Images : w.refs[i] > 0 /\ w.l_name[i] = path
    THEN CHOOSE i \in Images : w.refs[i] > 0 /\ w.l_name[i] = path
    ELSE 0

\* get_link_map_path: dlinfo(handle, RTLD_DI_LINKMAP) and l_name; None for
\* an empty name.
get_link_map_path(w, handle_) ==
    IF w.l_name[handle_] = 0 THEN None ELSE Some(w.l_name[handle_])

\* dylib_path(handle) after its own dylib_this(): the program's handle gives
\* current_exe() (written "exe"), any other the l_name of its link map.
dylib_path(w, handle_) ==
    IF ThisImage = handle_ THEN Ok("exe")
    ELSE IF get_link_map_path(w, handle_) = None THEN Err("NotFound")
    ELSE Ok(get_link_map_path(w, handle_)[2])

\* A clone that closes the handle it was given.
clone_closes_handle(this, handle_) == handle_

\* `dylib_close(this)?` in dylib_clone: the handle that is closed.
clone_closes(this, handle_) == this

\* The platform calls of dylib_clone that the platform may fail.
PlatformCalls == {"this", "close", "open"}

\* dylib_clone(handle): << result, the images afterwards >>, given the
\* platform calls that fail (each `?` returns the error).  dylib_this()
\* takes a reference on the program; for a handle other than the program's
\* one that reference is closed, dylib_path (which calls dylib_this() once
\* more) gives the path, and dylib_open opens it.
dylib_clone(w, handle_, fails) ==
    LET w1 == retain(w, ThisImage)
        this == ThisImage
    IN  IF "this" \in fails THEN << Err("Other"), w >>
        ELSE IF this = handle_ THEN << Ok(this), w1 >>
        ELSE IF "close" \in fails THEN << Err("Other"), w1 >>
        ELSE LET w2 == release(w1, clone_closes(this, handle_))
                 w3 == retain(w2, ThisImage)
                 path == dylib_path(w3, handle_)
             IN  IF ~IsOk(path) THEN << path, w3 >>
                 ELSE IF "open" \in fails \/ dlopen_path(w3, path[2]) = 0
                 THEN << Err("Other"), w3 >>
                 ELSE << Ok(dlopen_path(w3, path[2])),
                         retain(w3, dlopen_path(w3, path[2])) >>

DylibClone ==
    /\ call[1] = "none"
    /\ \E w \in Worlds : \E h \in {i \in Images : w.refs[i] > 0} :
           \E fails \in SUBSET PlatformCalls :
               BackendCall("dylib_clone", << w, h, fails >>, dylib_clone(w, h, fails))

InitOs == Init

\* One backend call is made in a behaviour: each action is enabled while no
\* call has been made.
NextOs ==
    \/ DylibOpen
    \/ DylibThis
    \/ DylibClose
    \/ DylibSymbol
    \/ DylibClone

SpecOs == InitOs /\ [][NextOs]_vars

\* =========================================== dylink_macro: AttrData::try_from
\* The expressions of an attribute's option list, as syn parses them.
ExprPath(id) == << "Path", id >>
ExprAssign(left, right) == << "Assign", left, right >>
ExprCall(func, args) == << "Call", func, args >>
ExprOther == << "Other" >>
LitStr(v) == << "Str", v >>
LitBool(b) == << "Bool", b >>

\* LinkType of the macro crate.
Vulkan == << "Vulkan" >>
General(list) == << "General", list >>

\* Sequences over S of length at most n.
SeqUpTo(S, n) == UNION {[1..k -> S] : k \in 0..n}

\* The arguments that occur inside any(...): `name = "A"`, `foo = "A"`,
\* `name = 5`, and an expression that is not an assignment.
AnyArgs ==
    { ExprAssign(ExprPath("name"), LitStr("A")),
      ExprAssign(ExprPath("foo"), LitStr("A")),
      ExprAssign(ExprPath("name"), ExprOther),
      ExprOther }

\* The options that occur in a list.  "a::b" is a path that is not a
\* single identifier; ExprOther on the left is a place that is not a path;
\* `library = x` and `link_name = "A"` are the options of the tests.
Options ==
    { ExprPath("vulkan"), ExprPath("foo"),
      ExprAssign(ExprPath("library"), ExprPath("x")),
      ExprAssign(ExprPath("link_name"), LitStr("A")),
      ExprAssign(ExprPath("name"), LitStr("A")),
      ExprAssign(ExprPath("name"), ExprOther),
      ExprAssign(ExprPath("strip"), LitBool(TRUE)),
      ExprAssign(ExprPath("strip"), ExprOther),
      ExprAssign(ExprPath("linker"), ExprPath("x")),
      ExprAssign(ExprPath("linker"), ExprPath("a::b")),
      ExprAssign(ExprPath("linker"), ExprOther),
      ExprAssign(ExprPath("foo"), LitStr("A")),
      ExprAssign(ExprOther, LitStr("A")),
      ExprCall(ExprPath("foo"), << >>),
      ExprOther }
    \cup { ExprCall(ExprPath("any"), args) : args \in SeqUpTo(AnyArgs, MaxArgs) }

\* path.is_ident(id)
is_ident(e, id) == e = ExprPath(id)

\* path.get_ident(): None for a path of several segments.
get_ident(e) == IF e[2] = "a::b" THEN None ELSE Some(e[2])

\* The locals of try_from before the loop.
ParseStart ==
    [maybe_strip |-> None, maybe_link_ty |-> None, linker |-> None,
     errors |-> << >>, panicked |-> FALSE]

push(st, msg) == [st EXCEPT !.errors = Append(@, msg)]

\* Branch `Expr::Path`: #[dylink(vulkan)].
parse_path(st, e) ==
    IF is_ident(e, "vulkan")
    THEN IF st.maybe_link_ty = None
         THEN [st EXCEPT !.maybe_link_ty = Some(Vulkan)]
         ELSE push(st, "Linkage already defined.")
    ELSE push(st, "EXPECTED_KW")

\* Branch `Expr::Assign`: name = <string>, strip = <bool>, linker = <ident>.
\* A left side that is not a path is `unreachable!`; get_ident().unwrap()
\* panics on a path that is not an identifier.
parse_assign(st, e) ==
    LET left == e[2]
        right == e[3]
    IN  IF left[1] # "Path" THEN [st EXCEPT !.panicked = TRUE]
        ELSE IF is_ident(left, "name")
        THEN IF right[1] = "Str"
             THEN IF st.maybe_link_ty = None
                  THEN [st EXCEPT !.maybe_link_ty = Some(General(<< right[2] >>))]
                  ELSE push(st, "Linkage already defined.")
             ELSE push(st, "Expected string literal.")
        ELSE IF is_ident(left, "strip")
        THEN IF right[1] = "Bool"
             THEN IF st.maybe_strip = None
                  THEN [st EXCEPT !.maybe_strip = Some(right[2])]
                  ELSE push(st, "strip is already defined")
             ELSE push(st, "Expected boolean literal.")
        ELSE IF is_ident(left, "linker")
        THEN IF right[1] = "Path"
             THEN IF st.linker = None
                  THEN IF get_ident(right) = None
                       THEN [st EXCEPT !.panicked = TRUE]
                       ELSE [st EXCEPT !.linker = get_ident(right)]
                  ELSE push(st, "linker is already defined")
             ELSE push(st, "Expected identifier.")
        ELSE push(st, "EXPECTED_KW")

\* The loop over call.args: acc is << lib_list, errors >>.
RECURSIVE parse_args(_, _)
parse_args(acc, args) ==
    IF args = << >> THEN acc
    ELSE LET a == Head(args)
             e1 == IF a[1] = "Assign" /\ ~is_ident(a[2], "name")
                   THEN Append(acc[2], "expected identifier name.")
                   ELSE acc[2]
             next == IF a[1] # "Assign"
                     THEN << acc[1], Append(acc[2], "Expected name = string.") >>
                     ELSE IF a[3][1] = "Str"
                     THEN << Append(acc[1], a[3][2]), e1 >>
                     ELSE << acc[1], Append(e1, "Expected string literal.") >>
         IN  parse_args(next, Tail(args))

\* An any(...) branch without the check for an empty list.
any_link_ty_unchecked(st, libs) ==
    [st EXCEPT !.maybe_link_ty = Some(General(libs))]

\* The end of the any(...) branch: an empty lib_list is an error, another
\* one becomes the link type.
any_link_ty(st, libs) ==
    IF libs = << >>
    THEN push(st, "No arguments detected.")
    ELSE [st EXCEPT !.maybe_link_ty = Some(General(libs))]

\* Branch `Expr::Call`: #[dylink(any(name = <string>, ...))].
parse_call(st, e) ==
    IF ~is_ident(e[2], "any")
    THEN push(st, "Expected function any.")
    ELSE LET r == parse_args(<< << >>, st.errors >>, e[3])
         IN  any_link_ty([st EXCEPT !.errors = r[2]], r[1])

\* One iteration of `for expr in value.iter()`.
parse_expr(st, e) ==
    IF e[1] = "Path" THEN parse_path(st, e)
    ELSE IF e[1] = "Assign" THEN parse_assign(st, e)
    ELSE IF e[1] = "Call" THEN parse_call(st, e)
    ELSE push(st, "EXPECTED_KW")

\* The loop; a panic ends it.
RECURSIVE parse_loop(_, _)
parse_loop(st, value) ==
    IF value = << >> \/ st.panicked THEN st
    ELSE parse_loop(parse_expr(st, Head(value)), Tail(value))

\* Option::unwrap_or_default for the strip flag.
unwrap_or_default(o) == IF o = None THEN FALSE ELSE o[2]

\* AttrData::try_from(value).
try_from(value) ==
    LET st == parse_loop(ParseStart, value)
        errors == IF st.maybe_link_ty = None
                  THEN Append(st.errors, "No linkage detected.")
                  ELSE st.errors
    IN  IF st.panicked THEN Panic
        ELSE IF errors # << >> THEN Err(errors)
        ELSE Ok([strip |-> unwrap_or_default(st.maybe_strip),
                 link_ty |-> st.maybe_link_ty[2],
                 linker |-> st.linker])

\* The macro parses the option list of one attribute.
TryFrom(value) ==
    /\ call' = << "try_from", value, try_from(value) >>
    /\ UNCHANGED << name, aggv, macv, regOp >>
    /\ UNCHANGED << platform, cellv, dllv, regv, lockv, pc, locals, budget,
                    crashed, hist >>

InitMacro == Init

\* One attribute is parsed in a behaviour.
NextMacro ==
    /\ call[1] = "none"
    /\ \E value \in SeqUpTo(Options, MaxOpts) : TryFrom(value)

SpecMacro == InitMacro /\ [][NextMacro]_vars

\* ============================================ os::unix: get_macos_image_path
\* The limit of the retry assertion.
RetryLimit == 100

\* _dyld_get_image_name(i) is null for an index that is out of bounds.
image_name_is_null(i, count) == i >= count

\* debug_assert!(_retry < 100): checked in builds with debug assertions.
retry_assert(debug, retry) == debug => retry < RetryLimit

\* get_macos_image_path(handle) is called: `let mut _retry = 0;
\* let mut i = c::_dyld_image_count() - 1`.  The private LOCK is held for
\* the whole call; other threads load and unload images without it.
MacStart ==
    /\ call[1] = "none"
    /\ macPc = "idle"
    /\ \E count \in 1..NImages : \E target \in 0..(NImages - 1) :
       \E debug \in BOOLEAN :
           /\ macCount' = count
           /\ macTarget' = target
           /\ macDebug' = debug
           /\ macI' = count - 1
    /\ macRetry' = 0
    /\ macPc' = "loop"
    /\ UNCHANGED << call, name, aggv, regOp >>
    /\ UNCHANGED << platform, cellv, dllv, regv, lockv, pc, locals, budget,
                    crashed, hist >>

\* One iteration of `while i > 0` up to the test of the image name:
\* `_dyld_get_image_name(i)`.  A null name goes on to the retry; the image
\* of the handle ends the call with its path; another image decrements i.
\* The loop's end is NotFound.
MacLoop ==
    /\ macPc = "loop"
    /\ IF ~(macI > 0)
       THEN /\ call' = << "get_macos_image_path", << macTarget >>, Err("NotFound") >>
            /\ macPc' = "done"
            /\ UNCHANGED << macI, macRetry >>
       ELSE IF image_name_is_null(macI, macCount)
       THEN /\ macPc' = "retry"
            /\ UNCHANGED << call, macI, macRetry >>
       ELSE IF macI = macTarget
       THEN /\ call' = << "get_macos_image_path", << macTarget >>, Ok(macI) >>
            /\ macPc' = "done"
            /\ UNCHANGED << macI, macRetry >>
       ELSE /\ macI' = macI - 1
            /\ UNCHANGED << call, macPc, macRetry >>
    /\ UNCHANGED << macCount, macTarget, macDebug, name, aggv, regOp >>
    /\ UNCHANGED << platform, cellv, dllv, regv, lockv, pc, locals, budget,
                    crashed, hist >>

\* The retry: `i = c::_dyld_image_count() - 1; _retry += 1;` the assertion
\* and `continue`.
MacRetry ==
    /\ macPc = "retry"
    /\ macRetry < MaxRetry
    /\ macI' = macCount - 1
    /\ macRetry' = macRetry + 1
    /\ IF retry_assert(macDebug, macRetry + 1)
       THEN /\ macPc' = "loop"
            /\ UNCHANGED call
       ELSE /\ call' = << "get_macos_image_path", << macTarget >>, Panic >>
            /\ macPc' = "done"
    /\ UNCHANGED << macCount, macTarget, macDebug, name, aggv, regOp >>
    /\ UNCHANGED << platform, cellv, dllv, regv, lockv, pc, locals, budget,
                    crashed, hist >>

\* Another thread loads or unloads an image while the loop runs.
MacImagesChange ==
    /\ macPc \in {"loop", "retry"}
    /\ \E count \in (1..NImages) \ {macCount} : macCount' = count
    /\ UNCHANGED << macPc, macI, macRetry, macTarget, macDebug, call, name, aggv, regOp >>
    /\ UNCHANGED << platform, cellv, dllv, regv, lockv, pc, locals, budget,
                    crashed, hist >>

InitMac == Init

NextMac ==
    \/ MacStart
    \/ MacLoop
    \/ MacRetry
    \/ MacImagesChange

SpecMac == InitMac /\ [][NextMac]_vars

\* ================================================== closeable aggregate
\* The library aggregate with a close operation (CloseableLibrary), as
\* section 4.2 of the design describes it: an ordered candidate list, a slot
\* that memoizes the opened handle or the failure, and an exclusive lock
\* taken by force() while it opens and by close().
agg_list == [k \in 1..NLibs |-> k]

Uninit == << "Uninit" >>

\* The failure force() memoizes when every candidate failed to open.
agg_failure == IF Len(agg_list) = 1 THEN Err(LibNotFound) ELSE Err(ListNotFound)

\* A close that leaves the memoized handle in the slot.
agg_after_close_keeps(slot) == slot

\* close() transitions the slot back to uninitialized.
agg_after_close(slot) == Uninit

\* A thread resolves a symbol against the aggregate.
AggResolve(t) ==
    /\ ~crashed
    /\ pc[t] = "idle"
    /\ calls[t] < MaxCalls
    /\ calls' = [calls EXCEPT ![t] = @ + 1]
    /\ pc' = [pc EXCEPT ![t] = "agg_force"]
    /\ UNCHANGED << platform, cellv, dllv, regv, lockv, locals, regCalls,
                    crashed, hist, call, name, macv, regOp, aggv >>

\* resolve() forces the aggregate: an uninitialized slot is opened under the
\* lock, a memoized handle is used, a memoized failure is returned.
AggForce(t) ==
    /\ ~crashed
    /\ pc[t] = "agg_force"
    /\ IF aggSlot = Uninit
       THEN /\ aggLock = 0
            /\ aggLock' = t
            /\ idx' = [idx EXCEPT ![t] = 1]
            /\ pc' = [pc EXCEPT ![t] = "agg_open"]
            /\ UNCHANGED << handle, aggRes >>
       ELSE IF IsOk(aggSlot)
       THEN /\ handle' = [handle EXCEPT ![t] = aggSlot[2]]
            /\ pc' = [pc EXCEPT ![t] = "agg_sym"]
            /\ UNCHANGED << idx, aggLock, aggRes >>
       ELSE /\ aggRes' = Append(aggRes, aggSlot)
            /\ pc' = [pc EXCEPT ![t] = "idle"]
            /\ UNCHANGED << idx, handle, aggLock >>
    /\ UNCHANGED << platform, cellv, dllv, regv, lockv, self, todo, arg, btodo,
                    maybe, fn_ptr, budget, crashed, hist, call, name, macv, regOp, aggSlot,
                    aggOpens, aggCloses >>

\* force(): open(candidate) for the candidates in order; the first handle is
\* memoized, and a failure once every candidate has failed.
AggOpen(t) ==
    /\ ~crashed
    /\ pc[t] = "agg_open"
    /\ \E lib_handle \in dlopen(agg_list[idx[t]]) :
         /\ libOpens' = [libOpens EXCEPT ![agg_list[idx[t]]] =
                           IF lib_handle = 0 THEN "none" ELSE "some"]
         /\ IF lib_handle # 0
            THEN /\ aggSlot' = Ok(lib_handle)
                 /\ aggOpens' = aggOpens + 1
                 /\ aggLock' = 0
                 /\ handle' = [handle EXCEPT ![t] = lib_handle]
                 /\ idx' = [idx EXCEPT ![t] = 0]
                 /\ pc' = [pc EXCEPT ![t] = "agg_sym"]
                 /\ UNCHANGED aggRes
            ELSE IF idx[t] < Len(agg_list)
            THEN /\ idx' = [idx EXCEPT ![t] = @ + 1]
                 /\ UNCHANGED << aggSlot, aggOpens, aggLock, handle, pc, aggRes >>
            ELSE /\ aggSlot' = agg_failure
                 /\ aggLock' = 0
                 /\ aggRes' = Append(aggRes, agg_failure)
                 /\ idx' = [idx EXCEPT ![t] = 0]
                 /\ pc' = [pc EXCEPT ![t] = "idle"]
                 /\ UNCHANGED << aggOpens, handle >>
    /\ UNCHANGED << libExports, vkGdpa, vkInstSym, vkDevSym, cellv, dllv, regv,
                    lockv, self, todo, arg, btodo, maybe, fn_ptr, budget,
                    crashed, hist, call, name, macv, regOp, aggCloses >>

\* resolve(handle, symbol_name) on the handle force() gave; null is
\* SymbolNotFound.
AggSym(t) ==
    /\ ~crashed
    /\ pc[t] = "agg_sym"
    /\ \E maybe_fn \in dlsym(handle[t]) :
         /\ libExports' = [libExports EXCEPT ![handle[t]] = Learn(maybe_fn)]
         /\ aggRes' = Append(aggRes, loader_result(maybe_fn))
    /\ handle' = [handle EXCEPT ![t] = 0]
    /\ pc' = [pc EXCEPT ![t] = "idle"]
    /\ UNCHANGED << libOpens, vkGdpa, vkInstSym, vkDevSym, cellv, dllv, regv,
                    lockv, self, idx, todo, arg, btodo, maybe, fn_ptr, budget,
                    crashed, hist, call, name, macv, regOp, aggSlot, aggLock, aggOpens,
                    aggCloses >>

\* close(): under the exclusive lock the handle is closed and the slot goes
\* back to uninitialized.
AggClose(t) ==
    /\ ~crashed
    /\ pc[t] = "idle"
    /\ aggLock = 0
    /\ IsOk(aggSlot)
    /\ aggCloses < MaxCloses
    /\ aggCloses' = aggCloses + 1
    /\ aggSlot' = agg_after_close(aggSlot)
    /\ UNCHANGED << platform, cellv, dllv, regv, lockv, pc, locals, budget,
                    crashed, hist, call, name, macv, regOp, aggLock, aggOpens, aggRes >>

InitAgg == Init

NextAgg ==
    \E t \in Threads :
        \/ AggResolve(t)
        \/ AggForce(t)
        \/ AggOpen(t)
        \/ AggSym(t)
        \/ AggClose(t)

SpecAgg == InitAgg /\ [][NextAgg]_vars

\* ------------------------------------------------------- whole specification
\* SpecSys and SpecVk are Spec restricted to the cells of one link type;
\* the other specifications are Spec restricted to one part of the crate.
Next ==
    \/ NextSys
    \/ NextVk
    \/ \E l \in Libs : LibraryInstalled(l)
    \/ NextNew
    \/ NextOs
    \/ NextMacro
    \/ NextAgg
    \/ NextMac

Spec == Init /\ [][Next]_vars

\* ===================================================================== claims
InLink(t) == pc[t] \notin {"idle", "call_once"}

\* The candidates thread t's link() has finished with.
Finished(t) ==
    IF pc[t] \in {"write", "ret"} THEN Len(tried[t]) ELSE Len(tried[t]) - 1

\* C1: a cell's resolution closure is executed at most once, however many
\* threads call link() and however often, and all the addresses link() has
\* returned for one cell are the same address.
C1_OneResolution ==
    \A c \in Cells :
        /\ runs[c] <= 1
        /\ \A r1, r2 \in rets[c] : IsOk(r1) /\ IsOk(r2) => r1 = r2

\* C1 witness: every thread called link() on the same fresh cell before any
\* of them returned, one resolution ran, and each is about to return Ok.
C1_Witness ==
    \E c \in SysCells :
        /\ \A t \in Threads : pc[t] = "ret" /\ self[t] = c
        /\ rets[c] = {}
        /\ runs[c] = 1
        /\ IsOk(link_result(c))

\* C7: a single-candidate list whose candidate fails to open yields
\* LibNotFound; ListNotFound is yielded only by a list of more than one
\* candidate, all of which failed to open.
C7_SingleCandidateKind ==
    \A c \in SysCells :
        /\ (/\ once[c] = "done"
            /\ lib_count(c) = 1
            /\ libOpens[lib_list(c)[1]] = "none") => status[c] = LibNotFound
        /\ status[c] = ListNotFound =>
              /\ lib_count(c) > 1
              /\ \A k \in 1..lib_count(c) : libOpens[lib_list(c)[k]] = "none"

\* C8: a candidate that opens but does not export the symbol ends the
\* link with FnNotFound: it is the last candidate the link passes to
\* loader(), whatever the candidates before it did and whatever the ones
\* after it would provide.
C8_SymbolMissingStops ==
    \A t \in Threads :
        (InLink(t) /\ self[t] \in SysCells) =>
            \A j \in 1..Finished(t) :
                (/\ libOpens[tried[t][j]] = "some"
                 /\ libExports[tried[t][j]] = "none") =>
                    /\ j = Len(tried[t])
                    /\ maybe[t] = Err(FnNotFound)
                    /\ pc[t] = "ret" => link_result(self[t]) = Err(FnNotFound)

\* C8 witness: sysA's first candidate failed to open, its second opened
\* without the symbol, and its link returns FnNotFound without having
\* tried the third, which opens and exports the symbol.
C8_Witness ==
    \E t \in Threads :
        /\ pc[t] = "ret"
        /\ self[t] = "sysA"
        /\ Len(tried[t]) = NLibs - 1
        /\ libOpens[1] = "none"
        /\ libOpens[tried[t][Len(tried[t])]] = "some"
        /\ libExports[tried[t][Len(tried[t])]] = "none"
        /\ libOpens[NLibs] = "some"
        /\ libExports[NLibs] = "some"
        /\ link_result("sysA") = Err(FnNotFound)

\* C9: a link passes its candidates to loader() in list order, goes on to
\* a candidate only when every candidate before it failed to open, and
\* returns the symbol of the candidate it stopped at, whose handle is the
\* one memoized.
C9_FirstMatchWins ==
    \A t \in Threads :
        (InLink(t) /\ self[t] \in SysCells) =>
            /\ tried[t] = SubSeq(lib_list(self[t]), 1, Len(tried[t]))
            /\ \A j \in 1..(Len(tried[t]) - 1) : libOpens[tried[t][j]] = "none"
            /\ (pc[t] = "write" /\ IsOk(maybe[t])) =>
                  /\ maybe[t] = Ok(SymAddr(tried[t][Len(tried[t])]))
                  /\ DLL_DATA[tried[t][Len(tried[t])]] = tried[t][Len(tried[t])]

\* C9 witness: sysA's first candidate failed to open, the second one
\* opened and is memoized, its symbol is returned and no later candidate
\* was ever opened.
C9_Witness ==
    \E t \in Threads :
        /\ pc[t] = "ret"
        /\ self[t] = "sysA"
        /\ tried[t] = << 1, 2 >>
        /\ libOpens[1] = "none"
        /\ DLL_DATA[2] # 0
        /\ link_result("sysA") = Ok(SymAddr(2))
        /\ \A l \in Libs : l > 2 => opens[l] = 0

\* C10: the platform open is invoked at most once for any library.
C10_OpenOnce == \A l \in Libs : opens[l] <= 1


\* C2: once link() has returned for a cell, the cell's slots and Once stay
\* as they are, no later call on it gets another outcome, and no later
\* call runs the resolution (no open, lookup or registry traversal) again,
\* whatever the registries and the other cells do in between.
C2_Step ==
    \A c \in LinkCells :
        rets[c] # {} =>
            /\ rets'[c] = rets[c]
            /\ runs'[c] = runs[c]
            /\ << once'[c], addr'[c], status'[c] >> = << once[c], addr[c], status[c] >>
            /\ \A t \in Threads :
                 self'[t] = c => pc'[t] \in {"idle", "call_once", "ret"}

C2_OutcomeFinal == [][C2_Step]_vars

\* C2 witness: a Vulkan cell's link returned FnNotFound, afterwards an
\* instance that yields the symbol was registered (another cell resolved
\* through it), and a later link() on the first cell is about to return.
C2_Witness ==
    \E c \in VkCells : \E t \in Threads : \E i \in VK_INSTANCE :
        /\ rets[c] = {Err(FnNotFound)}
        /\ vkInstSym[i] = "some"
        /\ pc[t] = "ret"
        /\ self[t] = c
        /\ link_result(c) = Err(FnNotFound)

\* C3: no thread holds the VK_INSTANCE read lock while it still holds the
\* VK_DEVICE read lock.
C3_LockOrder ==
    \A t \in Threads : ~(t \in devReaders /\ t \in instReaders)

\* The addresses successful lookups have returned.
Resolved ==
    {SymAddr(l) : l \in {x \in Libs : libExports[x] = "some"}}
        \cup {DevAddr(d) : d \in {x \in Devices : vkDevSym[x] = "some"}}
        \cup {InstAddr(i) : i \in {x \in Instances : vkInstSym[x] = "some"}}
        \cup {GdpaAddr(i) : i \in {x \in Instances : vkGdpa[x] = "some"}}
        \cup (IF vkInstSym[0] = "some" THEN {GlobalAddr} ELSE {})

\* C4: every cell's addr slot holds its placeholder or an address that a
\* successful lookup returned.
C4_SlotValid ==
    \A c \in Cells : addr[c] = Thunk(c) \/ addr[c] \in Resolved

\* C5: when the traversal of the instance registry for vkGetDeviceProcAddr
\* finds no address (the registry is empty or no instance yields one), the
\* resolution fails with FnNotFound: the slot keeps its placeholder, the
\* process goes on, and no thread calls through the slot.
C5_BootstrapFails ==
    (once[DYN_FUNC] = "done" /\ addr[DYN_FUNC] \notin Resolved) =>
        /\ status[DYN_FUNC] = FnNotFound
        /\ addr[DYN_FUNC] = Thunk(DYN_FUNC)
        /\ ~crashed
        /\ \A t \in Threads : pc[t] # "ub"

\* The three steps of the Vulkan resolution, in their order.
Rank(kind) == IF kind = "dev" THEN 1 ELSE IF kind = "inst" THEN 2 ELSE 3

\* What the loader answers at a lookup's handle: its address there or None.
Genuine(p) ==
    \/ p[3] = None
    \/ p[1] = "dev" /\ p[3] = Ok(DevAddr(p[2]))
    \/ p[1] = "inst" /\ p[3] = Ok(InstAddr(p[2]))
    \/ p[1] = "null" /\ p[3] = Ok(GlobalAddr)

\* C6: the lookups of a Vulkan link are made devices first, then
\* instances, then the null instance; each is a lookup the loader answers;
\* a lookup is made only when all the earlier ones missed; the link ends
\* with the first address found, and with FnNotFound exactly when the
\* device, the instance and the null-instance lookups have all missed.
C6_DiscoveryOrder ==
    \A t \in Threads :
        (InLink(t) /\ self[t] \in VkCells) =>
            LET p == probes[t] IN
            /\ ~crashed /\ pc[t] # "ub"
            /\ \A j \in 1..Len(p) : Genuine(p[j])
            /\ \A j, k \in 1..Len(p) : j < k =>
                  Rank(p[j][1]) <= Rank(p[k][1]) /\ p[j][3] = None
            /\ pc[t] = "write" =>
                  /\ Len(p) > 0
                  /\ IsOk(maybe[t]) => maybe[t] = p[Len(p)][3]
                  /\ ~IsOk(maybe[t]) =>
                        /\ maybe[t] = Err(FnNotFound)
                        /\ p[Len(p)] = << "null", 0, None >>

\* C11: every force of a library (loader()'s cache lookup or platform open)
\* has the same outcome as the first one, the same handle or the same
\* failure; the memoized handle is the one every force returned; and every
\* link that resolves in the library does so with the memoized handle.
C11_ForceIdempotent ==
    \A l \in Libs :
        /\ Cardinality(forced[l]) <= 1
        /\ DLL_DATA[l] # 0 => forced[l] = {Ok(DLL_DATA[l])}
        /\ \A t \in Threads :
             (pc[t] = "loader_sym" /\ lib_name(t) = l) => handle[t] = DLL_DATA[l]

\* C12: a registry call returns whether it changed the set: insert returns
\* TRUE exactly when the element was absent just before and leaves it
\* present, remove returns TRUE exactly when it was present and leaves it
\* absent; a call on one registry leaves the other as it was, and no other
\* step changes a registry.
C12_Step ==
    LET op == regRet'[1]
        x == regRet'[2]
        r == regRet'[3]
    IN  IF \E t \in Threads : regCalls'[t] # regCalls[t]
        THEN /\ op \in {"insert_instance", "remove_instance",
                        "insert_device", "remove_device"}
             /\ op = "insert_instance" =>
                   /\ r = (x \notin VK_INSTANCE)
                   /\ VK_INSTANCE' = VK_INSTANCE \cup {x}
                   /\ VK_DEVICE' = VK_DEVICE
             /\ op = "remove_instance" =>
                   /\ r = (x \in VK_INSTANCE)
                   /\ VK_INSTANCE' = VK_INSTANCE \ {x}
                   /\ VK_DEVICE' = VK_DEVICE
             /\ op = "insert_device" =>
                   /\ r = (x \notin VK_DEVICE)
                   /\ VK_DEVICE' = VK_DEVICE \cup {x}
                   /\ VK_INSTANCE' = VK_INSTANCE
             /\ op = "remove_device" =>
                   /\ r = (x \in VK_DEVICE)
                   /\ VK_DEVICE' = VK_DEVICE \ {x}
                   /\ VK_INSTANCE' = VK_INSTANCE
        ELSE UNCHANGED regv

C12_SetSemantics == [][C12_Step]_vars

\* C12 witness: while another thread is in the middle of a Vulkan link, a
\* thread has inserted an instance that an earlier call had registered, and
\* was told FALSE.
C12_Witness ==
    \E i \in VK_INSTANCE : \E t \in Threads :
        /\ regRet = << "insert_instance", i, FALSE >>
        /\ pc[t] = "vk_inst_iter"
        /\ \A u \in Threads : regCalls[u] = MaxRegOps

\* C13: no call of a loader backend operation panics: whatever the path,
\* the symbol name and the platform's answers, open, resolve and close
\* return Ok or Err.
C13_NoPanic == call[3] # Panic

\* A symbol name as the data model defines it: the bytes end in a zero
\* byte and hold no other zero byte.
WellFormedName(n) ==
    /\ Len(n) > 0
    /\ n[Len(n)] = 0
    /\ \A k \in 1..(Len(n) - 1) : n[k] # 0

\* C14: LazyFn::new constructs the cell exactly when the name ends in a
\* zero byte and holds no interior zero byte, and panics for every other
\* name.
C14_NameChecked ==
    call[1] = "LazyFn::new" =>
        (IsOk(call[3]) <=> WellFormedName(call[2][2]))

\* C20 (step): a LazyFn::new step leaves the cell with an unfired latch, the
\* thunk in the addr slot and an empty status slot, and changes nothing
\* else: not the handle cache, not a registry, not what the platform was
\* asked; any step that opens a library or asks for a symbol is a step of
\* a thread inside link().
C20_Step ==
    /\ \A c \in Cells :
         (once[c] = "unbuilt" /\ once'[c] # "unbuilt") =>
             /\ once'[c] = "new"
             /\ addr'[c] = Thunk(c)
             /\ status'[c] = NoError
             /\ runs'[c] = 0
             /\ UNCHANGED << platform, dllv, regv, lockv, pc, hist >>
    /\ (opens' # opens \/ platform' # platform \/ DLL_DATA' # DLL_DATA) =>
           \E t \in Threads : InLink(t) /\ pc[t] # "panicked"

\* C20: constructing a lazy cell performs no resolution and has no side
\* effect; the first open or lookup happens during the first link().
C20_NewIsPure == [][C20_Step]_vars

\* C20 witness: the cell was constructed, nothing has been opened or looked
\* up before its first link(), and that link is now asking the platform.
C20_Witness ==
    \E t \in Threads : \E c \in NewCells :
        /\ self[t] = c
        /\ pc[t] = "loader_open"
        /\ runs[c] = 1
        /\ \A l \in Libs : opens[l] = 0 /\ libOpens[l] = "unknown"

\* Whether an option names a link policy: vulkan, name = ..., any(...).
IsPolicy(e) ==
    \/ e = ExprPath("vulkan")
    \/ e[1] = "Assign" /\ e[2] = ExprPath("name")
    \/ e[1] = "Call" /\ e[2] = ExprPath("any")

PolicyCount(value) == Cardinality({k \in 1..Len(value) : IsPolicy(value[k])})

\* C15: the parser accepts an option list only if exactly one link policy
\* occurs in it; a list with two or more, in any order and combination,
\* or with none, is not accepted.
C15_ExactlyOnePolicy ==
    call[1] = "try_from" => (IsOk(call[3]) => PolicyCount(call[2]) = 1)

\* Whether an option is an any(...) from which no library name is collected.
IsEmptyAny(e) ==
    /\ e[1] = "Call"
    /\ e[2] = ExprPath("any")
    /\ \A k \in 1..Len(e[3]) : ~(e[3][k][1] = "Assign" /\ e[3][k][3][1] = "Str")

\* The options at which the parser itself panics: an assignment to a place
\* that is not a path, and a linker that is not a single identifier.
PanickingOption(e) ==
    /\ e[1] = "Assign"
    /\ \/ e[2][1] # "Path"
       \/ e[2] = ExprPath("linker") /\ e[3] = ExprPath("a::b")

C17_Step ==
    /\ runs'[DYN_FUNC] <= 1
    /\ \A t \in Threads :
         (pc[t] # "initial_lock" /\ pc'[t] = "initial_lock") =>
             (runs[DYN_FUNC] = 0 /\ once[DYN_FUNC] = "new")
    /\ once[DYN_FUNC] = "done" =>
         /\ addr'[DYN_FUNC] = addr[DYN_FUNC]
         /\ once'[DYN_FUNC] = "done"
         /\ \A t \in Threads :
              pc'[t] \notin {"initial_lock", "initial_iter", "initial_write"}

\* C17: resolving vkGetDeviceProcAddr again returns the address of the
\* first time without traversing the instance registry again.
C17_BootstrapOnce == [][C17_Step]_vars

\* C17 witness: one Vulkan cell was resolved through a device, which took
\* a call of vkGetDeviceProcAddr; the link of another cell has called it
\* again and got its answer from the address the bootstrap stored, and the
\* bootstrap's closure has run once.
C17_Witness ==
    \E c1, c2 \in VkCells : \E t \in Threads : \E d \in Devices : \E i \in Instances :
        /\ c1 # c2
        /\ addr[c1] = DevAddr(d)
        /\ addr[DYN_FUNC] = GdpaAddr(i)
        /\ runs[DYN_FUNC] = 1
        /\ self[t] = c2
        /\ pc[t] = "write"
        /\ probes[t] = << << "dev", d, Ok(DevAddr(d)) >> >>

\* C18 (step): a close leaves the slot uninitialized; a force that finds
\* the slot uninitialized goes on to open; an open of a library that has
\* opened before succeeds and is memoized; and the handles opened are one
\* more than the closes while a handle is memoized, and as many otherwise.
C18_Step ==
    /\ aggCloses' # aggCloses => aggSlot' = Uninit
    /\ \A t \in Threads :
         /\ (pc[t] = "agg_force" /\ pc'[t] # "agg_force" /\ aggSlot = Uninit) =>
                pc'[t] = "agg_open"
         /\ (/\ pc[t] = "agg_open"
             /\ << pc'[t], idx'[t] >> # << pc[t], idx[t] >>
             /\ libOpens[agg_list[idx[t]]] = "some") =>
                (aggSlot' = Ok(agg_list[idx[t]]) /\ aggOpens' = aggOpens + 1)
    /\ aggOpens' = aggCloses' + (IF IsOk(aggSlot') THEN 1 ELSE 0)

\* C18: a closeable aggregate that was forced and then closed is
\* uninitialized again, and the next force opens again and succeeds.
C18_CloseReopens == [][C18_Step]_vars

\* C18 witness: open; resolve; close; resolve: two successful resolutions,
\* one close, exactly two opens, and the handle memoized again.
C18_Witness ==
    /\ Len(aggRes) = 2
    /\ IsOk(aggRes[1])
    /\ IsOk(aggRes[2])
    /\ aggCloses = 1
    /\ aggOpens = 2
    /\ IsOk(aggSlot)
    /\ \A t \in Threads : pc[t] = "idle"

\* C19: a clone is a handle to the same image: cloning the program's own
\* handle returns that handle; cloning the handle of another library
\* returns a handle to the image of the same path, which is the image of
\* the original; the clone holds a reference of its own, and the original
\* handle has lost none.
C19_CloneSameImage ==
    call[1] = "dylib_clone" =>
        LET w == call[2][1]
            h == call[2][2]
            res == call[3][1]
            after == call[3][2]
        IN  /\ after.refs[h] >= w.refs[h]
            /\ IsOk(res) =>
                 /\ h = ThisImage => res[2] = ThisImage
                 /\ w.l_name[res[2]] = w.l_name[h]
                 /\ res[2] = h
                 /\ after.refs[h] >= w.refs[h] + 1

\* C19 witness: a library other than the program, loaded once and with a
\* path, was cloned: the clone is that image and it is now held twice.
C19_Witness ==
    /\ call[1] = "dylib_clone"
    /\ call[2][2] # ThisImage
    /\ call[2][1].refs[call[2][2]] = 1
    /\ call[3][1] = Ok(call[2][2])
    /\ call[3][2].refs[call[2][2]] = 2

\* C21: an option list whose only linkage option is `library = <binding>`,
\* alone or with `link_name = <string>`, is accepted by AttrData::try_from.
IsLibraryOption(e) == e = ExprAssign(ExprPath("library"), ExprPath("x"))

IsLinkNameOption(e) == e = ExprAssign(ExprPath("link_name"), LitStr("A"))

LibraryOnly(value) ==
    /\ Cardinality({k \in 1..Len(value) : IsLibraryOption(value[k])}) = 1
    /\ Cardinality({k \in 1..Len(value) : IsLinkNameOption(value[k])}) <= 1
    /\ \A k \in 1..Len(value) :
           IsLibraryOption(value[k]) \/ IsLinkNameOption(value[k])

C21_LibraryAccepted ==
    (call[1] = "try_from" /\ LibraryOnly(call[2])) => IsOk(call[3])

\* C22: a thread that is about to make the null-instance call to
\* vkGetInstanceProcAddr, or to write a resolved address into a cell (the
\* cell being linked or DYN_FUNC), holds neither the VK_DEVICE nor the
\* VK_INSTANCE read lock.
C22_LocksOnlyWhileIterating ==
    \A t \in Threads :
        pc[t] \in {"vk_null", "write", "initial_write"} =>
            (t \notin devReaders /\ t \notin instReaders)

\* C23: no thread reads a cell's addr slot while the latch's initializer
\* of that cell is running in another thread.  link() reads the slots of
\* its cell when it returns; vkGetDeviceProcAddr and initial_fn read the
\* slot of DYN_FUNC when they call DYN_FUNC(device, name).
C23_NoReadDuringInit ==
    \A t \in Threads :
        /\ pc[t] = "ret" => once[self[t]] # "running"
        /\ pc[t] \in {"gdpa_call", "initial_call"} => once[DYN_FUNC] # "running"

\* C24: get_macos_image_path ends with a path or NotFound, and its retry
\* counter stays below the limit of its assertion.
C24_RetryBounded ==
    /\ macRetry < RetryLimit
    /\ call[1] = "get_macos_image_path" => call[3] # Panic

\* The pc values inside the closure that link() passes to call_once.
ClosurePcs ==
    {"vk_dev_lock", "vk_dev_iter", "gdpa_call", "initial_once", "initial_lock",
     "initial_iter", "initial_write", "initial_call", "ub", "vk_inst_lock",
     "vk_inst_iter", "vk_null", "loader_read", "loader_open", "loader_insert",
     "loader_sym", "write"}

\* The threads that run the call_once closure of cell c.
Runner(c) ==
    IF c = DYN_FUNC
    THEN {u \in Threads : pc[u] \in {"initial_lock", "initial_iter", "initial_write"}}
    ELSE {u \in Threads : self[u] = c /\ pc[u] \in ClosurePcs}

\* The threads that wait in a registry call for the write lock of lock.
WaitingWriters(lock) ==
    {u \in Threads :
        /\ pc[u] = "reg_wait"
        /\ (lock = "VK_INSTANCE") =
               (regOp[u][1] \in {"insert_instance", "remove_instance"})}

\* The threads that have to act before t can take its next step: the
\* runner of a latch t waits on, the readers of a lock t wants to write,
\* and the waiting writers of a lock t wants to read (a lock that prefers
\* writers makes the reader wait for them).  Empty: t is not waiting.
WaitsFor(t) ==
    IF pc[t] = "call_once" /\ once[self[t]] = "running" THEN Runner(self[t])
    ELSE IF pc[t] = "initial_once" /\ once[DYN_FUNC] = "running"
    THEN Runner(DYN_FUNC)
    ELSE IF pc[t] = "loader_insert" THEN dllReaders
    ELSE IF pc[t] = "reg_wait" THEN readers_of(regOp[t][1])
    ELSE IF pc[t] = "loader_read" /\ writer_waiting("DLL_DATA")
    THEN {u \in Threads : pc[u] = "loader_insert"}
    ELSE IF pc[t] = "vk_dev_lock" THEN WaitingWriters("VK_DEVICE")
    ELSE IF pc[t] \in {"vk_inst_lock", "initial_lock"}
    THEN WaitingWriters("VK_INSTANCE")
    ELSE {}

C26_OneSlotWritten ==
    \A c \in Cells :
        once[c] = "done" =>
            /\ runs[c] = 1
            /\ \/ status[c] = NoError /\ addr[c] \in Resolved
               \/ /\ status[c] \in {LibNotFound, FnNotFound, ListNotFound}
                  /\ addr[c] = Thunk(c)
            /\ \A r \in rets[c] : IsOk(r) = (status[c] = NoError)

\* C27: DLL_DATA changes only by gaining, for a name without an entry, the
\* non-zero handle that a successful open of that name returned; a failed
\* open records LibNotFound and leaves DLL_DATA as it was; and a loader()
\* call that starts when its name has an entry takes the cached handle and
\* goes on to the symbol lookup without an open.
C27_Step ==
    /\ \A l \in Libs :
           DLL_DATA'[l] # DLL_DATA[l] =>
               /\ DLL_DATA[l] = 0
               /\ DLL_DATA'[l] # 0
               /\ Ok(DLL_DATA'[l]) \in forced[l]
               /\ opens[l] >= 1
    /\ \A t \in Threads :
           /\ (pc[t] = "loader_open" /\ pc'[t] # "loader_open"
                    /\ pc'[t] # "loader_insert") =>
                 /\ DLL_DATA' = DLL_DATA
                 /\ Err(LibNotFound) \in forced'[lib_name(t)]
           /\ (pc[t] = "loader_read" /\ tried'[t] # tried[t]
                    /\ DLL_DATA[lib_name(t)] # 0) =>
                 /\ pc'[t] = "loader_sym"
                 /\ handle'[t] = DLL_DATA[lib_name(t)]
                 /\ opens' = opens

C27_CacheOnlyGrows == [][C27_Step]_vars

\* C27 witness: a library failed to open and has no entry, another was
\* opened once and cached, and a thread that called loader() for it
\* afterwards holds the cached handle without a second open.
C27_Witness ==
    \E l, m \in Libs : \E t \in Threads :
        /\ Err(LibNotFound) \in forced[m]
        /\ DLL_DATA[m] = 0
        /\ DLL_DATA[l] = l
        /\ opens[l] = 1
        /\ runs["sysB"] = 1
        /\ once["sysB"] = "done"
        /\ pc[t] = "loader_sym"
        /\ self[t] = "sysA"
        /\ t \in dllReaders
        /\ handle[t] = l

\* C28: when no dlclose fails, dylib_clone leaves the program's image with
\* the references it had, plus one if the handle it returns is the
\* program's: every reference it took through dylib_this() was returned
\* or closed.
C28_HandlesBalanced ==
    (call[1] = "dylib_clone" /\ "close" \notin call[2][3]) =>
        LET w == call[2][1]
            res == call[3][1]
            after == call[3][2]
        IN  after.refs[ThisImage] <=
                w.refs[ThisImage] + (IF res = Ok(ThisImage) THEN 1 ELSE 0)

====
